---- MODULE Spec2Model ----
(***************************************************************************)
(* Ethan Kick Counter (src/app.py): a Streamlit script over three SQLite   *)
(* tables (kicks, kick_events, login), a PIN gate kept in the session      *)
(* state, a fire-and-forget Telegram notification and the Analytics page.  *)
(*                                                                         *)
(* Time is a UTC clock counted in ticks of 8/Res hours, so that the fixed  *)
(* UTC+8 offset of Asia/Kuala_Lumpur is a whole number of ticks.  An ISO   *)
(* string is modelled by the tuple of its fixed-width numeric fields, and  *)
(* string comparison by the lexicographic order on those tuples.           *)
(***************************************************************************)
EXTENDS Integers, Sequences, FiniteSets, TLC

\* ---------------------------------------------------------------- bounds
Res == 1
MaxTime == 4
MaxKicks == 2
MaxSessions == 2
NumKeys == 2
MaxTasks == 1
MaxWrong == 2
MaxRows == 3

\* ------------------------------------------------------- program constants
PinMaxLen == 4
PIN_CODE == <<1, 2>>
TicksPerDay == 3 * Res
MALAYSIA_TZ == Res
UTC == 0
ServerZones == {UTC, MALAYSIA_TZ}

AllSessions == 1..MaxSessions
Keys == 1..NumKeys
NoLogin == <<>>

VARIABLES
    now,          \* the clock, in UTC ticks
    server_tz,    \* the server process's own UTC offset, in ticks
    sessions,     \* the browser sessions that exist
    kicks,        \* table kicks: kick_date -> count
    kick_events,  \* table kick_events: kick_time of each row, in rowid order
    login,        \* table login: last_login_date of row id=1, or NoLogin
    pc,           \* each session's position in the script
    logged_in,    \* st.session_state.logged_in
    pin_input,    \* st.session_state.pin_input
    today_count,  \* the Home page's local today_count
    loc,          \* the running function's local datetime (now_utc, today_str, today_start_utc)
    tasks,        \* Telegram daemon threads still running
    run,          \* history: the current series of ADD KICK actions of one local day
    wrong,        \* history: each session's consecutive rejected PINs, up to MaxWrong
    page          \* what the last run of the Analytics page loaded and showed

vars == <<now, server_tz, sessions, kicks, kick_events, login, pc, logged_in,
          pin_input, today_count, loc, tasks, run, wrong, page>>
db == <<kicks, kick_events, login>>
sess == <<pc, logged_in, pin_input, today_count, loc>>

\* ------------------------------------------------------------ time, strings
\* datetime.now(MALAYSIA_TZ).date(): the local date of a UTC instant.
LocalDate(t) == (t + MALAYSIA_TZ) \div TicksPerDay

\* date.isoformat() / str(date): 'YYYY-MM-DD'.
IsoDate(d) == <<d>>

\* datetime.isoformat() of an aware UTC datetime: its date and time fields.
IsoDateTime(t) == <<t \div TicksPerDay, t % TicksPerDay>>

\* pd.to_datetime of such a string: back to the UTC instant.
ParseIso(str) == str[1] * TicksPerDay + str[2]

\* SQLite's BINARY collation on two such strings.
StrLeq(a, b) == a[1] < b[1] \/ (a[1] = b[1] /\ a[2] <= b[2])

\* datetime.combine(date, time.min) / time.max: naive wall-clock datetimes.
CombineMin(d) == d * TicksPerDay
CombineMax(d) == d * TicksPerDay + (TicksPerDay - 1)

\* naive.astimezone(UTC): a naive datetime is read in the server's own zone.
NaiveToUtc(naive, zone) == naive - zone

\* ------------------------------------------------------------------ tables
get_last_login_date == login

save_login_date(login_date) == login' = login_date

get_today_kicks ==
    LET today_str == IsoDate(LocalDate(now))
    IN  IF today_str \in DOMAIN kicks THEN kicks[today_str] ELSE 0

\* save_kick with ON CONFLICT DO NOTHING: an existing row keeps its count.
save_kick_ignore(count) ==
    LET today_str == IsoDate(LocalDate(now))
    IN  kicks' = IF today_str \in DOMAIN kicks THEN kicks
                 ELSE [k \in DOMAIN kicks \cup {today_str} |->
                          IF k = today_str THEN count ELSE kicks[k]]

save_kick(count) ==
    LET today_str == IsoDate(LocalDate(now))
    IN  kicks' = [k \in DOMAIN kicks \cup {today_str} |->
                     IF k = today_str THEN count ELSE kicks[k]]

InsertKickEvent(now_utc) == kick_events' = Append(kick_events, IsoDateTime(now_utc))

DeleteKicks(today_str) == [k \in DOMAIN kicks \ {today_str} |-> kicks[k]]

DeleteEventsBetween(lo, hi) ==
    SelectSeq(kick_events, LAMBDA e : ~(StrLeq(lo, e) /\ StrLeq(e, hi)))

WriteLocked == \E s \in sessions : pc[s] \in {"reset_start", "reset_end"}

NoLocal == <<>>
InKick == {"clicked", "log", "insert", "notify"}
InReset == {"reset_start", "reset_end"}

\* ----------------------------------------------------------------- history
\* A series starts at the read of an ADD KICK made while no action is under
\* way, and records what that read saw; a reset, a failed action or an action
\* that ends on another local day ends the series.
NoRun == [valid |-> FALSE, day |-> 0, base |-> 0, rows |-> 0, n |-> 0]

RunAtRead(s) ==
    LET today == LocalDate(now)
    IN  IF run.valid /\ run.day = today THEN run
        ELSE IF \A o \in sessions \ {s} : pc[o] = "idle"
        THEN [valid |-> TRUE, day |-> today, base |-> get_today_kicks,
              rows |-> Len(kick_events), n |-> 0]
        ELSE NoRun

RunAtDone ==
    IF run.valid /\ run.day = LocalDate(now) THEN [run EXCEPT !.n = @ + 1] ELSE NoRun

\* ---------------------------------------------------------------- Analytics
Lookbacks == {10, 20, 30}
HoursPerTick == <<8, Res>>
NoPage == [at |-> "none"]

RECURSIVE Sum(_)
Sum(seq) == IF seq = <<>> THEN 0 ELSE Head(seq) + Sum(Tail(seq))

\* pd.read_sql over "SELECT kick_time FROM kick_events" (rowid order), parsed
\* and converted to Malaysia time: each row's local wall-clock instant.
LoadEvents(rows) == [i \in 1..Len(rows) |-> ParseIso(rows[i]) + MALAYSIA_TZ]

\* df["date"]: the calendar date of a local instant.
DateOf(local) == local \div TicksPerDay

\* df[df["date"] == today]
TodayDf(df, today) == SelectSeq(df, LAMBDA t : DateOf(t) = today)

\* times.sort_values()
SortValues(times) == SortSeq(times, LAMBDA a, b : a < b)

\* times.diff().dropna()
Diff(times) == [i \in 1..(Len(times) - 1) |-> times[i + 1] - times[i]]

\* intervals.mean() in hours, as the fraction <<numerator, denominator>>.
MeanHours(intervals) ==
    <<Sum(intervals) * HoursPerTick[1], Len(intervals) * HoursPerTick[2]>>

\* A group's rows, in the frame's order.
Group(recent, d) == SelectSeq(recent, LAMBDA t : DateOf(t) = d)

\* Whether a date's group gets an entry: groups of fewer than 2 rows are skipped.
HasInterval(group) == ~(Len(group) < 2)

\* The window with its first day left out.
RecentExclusive(df, cutoff) == SelectSeq(df, LAMBDA t : DateOf(t) > cutoff)

\* The rows inside the lookback window.
Recent(df, cutoff) == SelectSeq(df, LAMBDA t : DateOf(t) >= cutoff)

\* interval_data: one entry per kept group, groups in ascending date order.
IntervalData(df, today, days) ==
    LET cutoff == today - days
        recent == Recent(df, cutoff)
        dates  == {DateOf(recent[i]) : i \in 1..Len(recent)}
        kept   == {d \in dates : HasInterval(Group(recent, d))}
        order  == SortSeq(CHOOSE q \in [1..Cardinality(kept) -> kept] :
                              \A d \in kept : \E i \in DOMAIN q : q[i] = d,
                          LAMBDA a, b : a < b)
    IN  [i \in 1..Len(order) |->
            [date |-> order[i],
             avg_interval |-> MeanHours(Diff(SortValues(Group(recent, order[i]))))]]

\* ------------------------------------------------------------------ session
Init ==
    /\ now = 0
    /\ server_tz \in ServerZones
    /\ sessions = AllSessions
    /\ kicks = <<>>
    /\ kick_events = <<>>
    /\ login = NoLogin
    /\ pc = [s \in AllSessions |-> "none"]
    /\ logged_in = [s \in AllSessions |-> FALSE]
    /\ pin_input = [s \in AllSessions |-> <<>>]
    /\ today_count = [s \in AllSessions |-> 0]
    /\ loc = [s \in AllSessions |-> NoLocal]
    /\ tasks = 0
    /\ run = NoRun
    /\ wrong = [s \in AllSessions |-> 0]
    /\ page = NoPage

\* The first run of a session: the gate is read from the login table once.
SessionInit(s) ==
    /\ pc[s] = "none"
    /\ pc' = [pc EXCEPT ![s] = "idle"]
    /\ logged_in' = [logged_in EXCEPT
                        ![s] = (get_last_login_date = IsoDate(LocalDate(now)))]
    /\ pin_input' = [pin_input EXCEPT ![s] = <<>>]
    /\ UNCHANGED <<now, server_tz, sessions, db, today_count, loc, tasks, run, wrong, page>>

AtPin(s) == pc[s] = "idle" /\ ~logged_in[s]

PinBackspace(s) ==
    /\ AtPin(s)
    /\ pin_input' = [pin_input EXCEPT
                        ![s] = IF @ = <<>> THEN <<>> ELSE SubSeq(@, 1, Len(@) - 1)]
    /\ wrong' = [wrong EXCEPT ![s] = 0]
    /\ UNCHANGED <<now, server_tz, sessions, db, pc, logged_in, today_count, loc,
                   tasks, run, page>>

PinDigit(s, key) ==
    /\ AtPin(s)
    /\ pin_input' = [pin_input EXCEPT
                        ![s] = IF Len(@) < PinMaxLen THEN Append(@, key) ELSE @]
    /\ wrong' = [wrong EXCEPT ![s] = 0]
    /\ UNCHANGED <<now, server_tz, sessions, db, pc, logged_in, today_count, loc,
                   tasks, run, page>>

\* The confirm key with a rejected input left on the keypad.
PinConfirmKeep(s) ==
    /\ pc[s] = "idle" /\ ~logged_in[s]
    /\ IF pin_input[s] = PIN_CODE
       THEN /\ logged_in' = [logged_in EXCEPT ![s] = TRUE]
            /\ login' = IsoDate(LocalDate(now))
            /\ pin_input' = [pin_input EXCEPT ![s] = <<>>]
            /\ wrong' = [wrong EXCEPT ![s] = 0]
       ELSE /\ wrong' = [wrong EXCEPT ![s] = IF @ < MaxWrong THEN @ + 1 ELSE @]
            /\ UNCHANGED <<logged_in, login, pin_input>>
    /\ UNCHANGED <<now, server_tz, sessions, kicks, kick_events, pc, today_count,
                   loc, tasks, run, page>>

\* The confirm key. A match sets logged_in before it writes the login date; the
\* write waits for a reset's transaction and raises when the wait times out.
PinConfirm(s) ==
    /\ AtPin(s)
    /\ IF pin_input[s] = PIN_CODE
       THEN /\ logged_in' = [logged_in EXCEPT ![s] = TRUE]
            /\ wrong' = [wrong EXCEPT ![s] = 0]
            /\ \/ /\ ~WriteLocked
                  /\ save_login_date(IsoDate(LocalDate(now)))
                  /\ pin_input' = [pin_input EXCEPT ![s] = <<>>]
               \/ /\ WriteLocked
                  /\ UNCHANGED <<login, pin_input>>
       ELSE /\ pin_input' = [pin_input EXCEPT ![s] = <<>>]
            /\ wrong' = [wrong EXCEPT ![s] = IF @ < MaxWrong THEN @ + 1 ELSE @]
            /\ UNCHANGED <<logged_in, login>>
    /\ UNCHANGED <<now, server_tz, sessions, kicks, kick_events, pc, today_count,
                   loc, tasks, run, page>>

\* --------------------------------------------------------------- ADD KICK
\* The rerun a click starts: the Home page reads today's count, then the
\* button's branch runs.
KickRead(s) ==
    /\ pc[s] = "idle" /\ logged_in[s]
    /\ Len(kick_events) < MaxKicks /\ get_today_kicks < MaxKicks /\ tasks < MaxTasks
    /\ today_count' = [today_count EXCEPT ![s] = get_today_kicks]
    /\ pc' = [pc EXCEPT ![s] = "clicked"]
    /\ run' = RunAtRead(s)
    /\ UNCHANGED <<now, server_tz, sessions, db, logged_in, pin_input, loc, tasks, wrong, page>>

KickSave(s) ==
    /\ pc[s] = "clicked"
    /\ ~WriteLocked
    /\ today_count' = [today_count EXCEPT ![s] = @ + 1]
    /\ save_kick(today_count[s] + 1)
    /\ pc' = [pc EXCEPT ![s] = "log"]
    /\ UNCHANGED <<now, server_tz, sessions, kick_events, login, logged_in,
                   pin_input, loc, tasks, run, wrong, page>>

\* log_kick_event takes its timestamp, then inserts and commits.
KickStamp(s) ==
    /\ pc[s] = "log"
    /\ loc' = [loc EXCEPT ![s] = <<now>>]
    /\ pc' = [pc EXCEPT ![s] = "insert"]
    /\ UNCHANGED <<now, server_tz, sessions, db, logged_in, pin_input, today_count,
                   tasks, run, wrong, page>>

KickInsert(s) ==
    /\ pc[s] = "insert"
    /\ ~WriteLocked
    /\ InsertKickEvent(loc[s][1])
    /\ loc' = [loc EXCEPT ![s] = NoLocal]
    /\ pc' = [pc EXCEPT ![s] = "notify"]
    /\ UNCHANGED <<now, server_tz, sessions, kicks, login, logged_in, pin_input,
                   today_count, tasks, run, wrong, page>>

\* The post made by the caller itself: the run stays in the call.
send_telegram_message_sync(s) ==
    /\ tasks' = tasks
    /\ pc' = [pc EXCEPT ![s] = "posting"]

\* Starts the daemon thread and returns; st.rerun() ends the run.
send_telegram_message_async(s) ==
    /\ tasks' = tasks + 1
    /\ pc' = [pc EXCEPT ![s] = "idle"]

KickNotify(s) ==
    /\ pc[s] = "notify"
    /\ send_telegram_message_async(s)
    /\ today_count' = [today_count EXCEPT ![s] = 0]
    /\ run' = RunAtDone
    /\ UNCHANGED <<now, server_tz, sessions, db, logged_in, pin_input, loc, wrong, page>>

\* The thread's requests.post returns, or raises and the error is printed;
\* a post that never returns leaves the thread running.
task(outcome) ==
    /\ tasks > 0
    /\ outcome \in {"posted", "raised"}
    /\ tasks' = tasks - 1
    /\ UNCHANGED <<now, server_tz, sessions, db, sess, run, wrong, page>>

\* ------------------------------------------------------------ Reset Today
\* today_str is read and the kicks row deleted inside the transaction.
ResetBegin(s) ==
    /\ pc[s] = "idle" /\ logged_in[s]
    /\ ~WriteLocked
    /\ loc' = [loc EXCEPT ![s] = <<IsoDate(LocalDate(now))>>]
    /\ pc' = [pc EXCEPT ![s] = "reset_start"]
    /\ run' = NoRun
    /\ UNCHANGED <<now, server_tz, sessions, db, logged_in, pin_input, today_count,
                   tasks, wrong, page>>

ResetStart(s) ==
    /\ pc[s] = "reset_start"
    /\ loc' = [loc EXCEPT ![s] = Append(@,
                  IsoDateTime(NaiveToUtc(CombineMin(LocalDate(now)), server_tz)))]
    /\ pc' = [pc EXCEPT ![s] = "reset_end"]
    /\ UNCHANGED <<now, server_tz, sessions, db, logged_in, pin_input, today_count,
                   tasks, run, wrong, page>>

reset_today(s) ==
    LET today_end_utc == IsoDateTime(NaiveToUtc(CombineMax(LocalDate(now)), server_tz))
    IN  /\ kicks' = DeleteKicks(loc[s][1])
        /\ kick_events' = DeleteEventsBetween(loc[s][2], today_end_utc)

ResetCommit(s) ==
    /\ pc[s] = "reset_end"
    /\ reset_today(s)
    /\ loc' = [loc EXCEPT ![s] = NoLocal]
    /\ pc' = [pc EXCEPT ![s] = "idle"]
    /\ run' = NoRun
    /\ UNCHANGED <<now, server_tz, sessions, login, logged_in, pin_input,
                   today_count, tasks, wrong, page>>

\* A run that ends in an exception (sqlite3.OperationalError: a lock wait
\* timed out, the disk is full) or with the process. What is committed stays;
\* an open transaction is rolled back.
Fail(s) ==
    /\ pc[s] \in InKick \cup InReset
    /\ pc' = [pc EXCEPT ![s] = "idle"]
    /\ today_count' = [today_count EXCEPT ![s] = 0]
    /\ loc' = [loc EXCEPT ![s] = NoLocal]
    /\ run' = NoRun
    /\ UNCHANGED <<now, server_tz, sessions, db, logged_in, pin_input, tasks, wrong, page>>

\* The Analytics page: the run loads the events, and stops there when there
\* are none.
AnalyticsLoad(s) ==
    /\ pc[s] = "idle" /\ logged_in[s]
    /\ page' = [at |-> "loaded", df |-> LoadEvents(kick_events)]
    /\ UNCHANGED <<now, server_tz, sessions, db, sess, tasks, run, wrong>>

\* The rest of the run: today's table and the interval series of the chosen
\* lookback window.
AnalyticsShow(s, days) ==
    /\ pc[s] = "idle" /\ logged_in[s]
    /\ page.at = "loaded" /\ page.df # <<>>
    /\ LET today == LocalDate(now)
       IN  page' = [at |-> "shown", df |-> page.df, today |-> today, days |-> days,
                    today_df |-> TodayDf(page.df, today),
                    interval_df |-> IntervalData(page.df, today, days)]
    /\ UNCHANGED <<now, server_tz, sessions, db, sess, tasks, run, wrong>>

Tick ==
    /\ now < MaxTime
    /\ now' = now + 1
    /\ UNCHANGED <<server_tz, sessions, db, sess, tasks, run, wrong, page>>

\* Every step of a run that goes through.
Step ==
    \/ Tick
    \/ \E s \in sessions : SessionInit(s)
    \/ \E s \in sessions : PinBackspace(s)
    \/ \E s \in sessions, key \in Keys : PinDigit(s, key)
    \/ \E s \in sessions : PinConfirm(s)
    \/ \E s \in sessions : KickRead(s)
    \/ \E s \in sessions : KickSave(s)
    \/ \E s \in sessions : KickStamp(s)
    \/ \E s \in sessions : KickInsert(s)
    \/ \E s \in sessions : KickNotify(s)
    \/ \E s \in sessions : ResetBegin(s)
    \/ \E s \in sessions : ResetStart(s)
    \/ \E s \in sessions : ResetCommit(s)
    \/ \E outcome \in {"posted", "raised"} : task(outcome)

Next ==
    \/ Step
    \/ \E s \in sessions : Fail(s)

Spec == Init /\ [][Next]_vars

InitSingle ==
    /\ now = 0
    /\ server_tz \in ServerZones
    /\ sessions = {1}
    /\ kicks = <<>>
    /\ kick_events = <<>>
    /\ login = NoLogin
    /\ pc = [s \in AllSessions |-> "none"]
    /\ logged_in = [s \in AllSessions |-> FALSE]
    /\ pin_input = [s \in AllSessions |-> <<>>]
    /\ today_count = [s \in AllSessions |-> 0]
    /\ loc = [s \in AllSessions |-> NoLocal]
    /\ tasks = 0
    /\ run = NoRun
    /\ wrong = [s \in AllSessions |-> 0]
    /\ page = NoPage

SpecSingle == InitSingle /\ [][Next]_vars

\* One session whose every action completes.
SpecCompleted == InitSingle /\ [][Step]_vars

\* The Analytics page opened late on a local day, over stored events at the
\* first and last tick of the dates around the ends of the lookback windows.
MaxOf(S) == CHOOSE x \in S : \A y \in S : y <= x
DayStart(d) == d * TicksPerDay - MALAYSIA_TZ
DayEnd(d) == DayStart(d) + (TicksPerDay - 1)
AnalyticsNow == DayEnd(MaxOf(Lookbacks) + 2)
SampleAges == {0} \cup Lookbacks \cup {l + 1 : l \in Lookbacks}
SampleTicks == UNION {{DayStart(LocalDate(AnalyticsNow) - a),
                       DayEnd(LocalDate(AnalyticsNow) - a)} : a \in SampleAges}
SampleRows == UNION {[1..n -> {IsoDateTime(t) : t \in SampleTicks}] : n \in 0..MaxRows}

InitAnalytics ==
    /\ now = AnalyticsNow
    /\ server_tz = UTC
    /\ sessions = {1}
    /\ kicks = <<>>
    /\ kick_events \in SampleRows
    /\ login = IsoDate(LocalDate(AnalyticsNow))
    /\ pc = [s \in AllSessions |-> IF s = 1 THEN "idle" ELSE "none"]
    /\ logged_in = [s \in AllSessions |-> s = 1]
    /\ pin_input = [s \in AllSessions |-> <<>>]
    /\ today_count = [s \in AllSessions |-> 0]
    /\ loc = [s \in AllSessions |-> NoLocal]
    /\ tasks = 0
    /\ run = NoRun
    /\ wrong = [s \in AllSessions |-> 0]
    /\ page = NoPage

NextAnalytics ==
    \/ \E s \in sessions : AnalyticsLoad(s)
    \/ \E s \in sessions, days \in Lookbacks : AnalyticsShow(s, days)

SpecAnalytics == InitAnalytics /\ [][NextAnalytics]_vars

\* ------------------------------------------------------------------ claims
AllIdle == \A s \in sessions : pc[s] = "idle"

\* The local date of a stored kick_time.
EventDate(e) == LocalDate(ParseIso(e))

EventsOn(d) == Cardinality({i \in 1..Len(kick_events) : EventDate(kick_events[i]) = d})

CountOn(d) == IF IsoDate(d) \in DOMAIN kicks THEN kicks[IsoDate(d)] ELSE 0

StoredDates == {k[1] : k \in DOMAIN kicks} \cup
               {EventDate(kick_events[i]) : i \in 1..Len(kick_events)}

\* C1: in a single session, after N consecutive completed ADD KICK actions of
\* one local day with no reset between them, get_today_kicks() returns what it
\* returned before the first action plus N (N itself when there was no row).
C1_CountAfterNKicks ==
    (run.valid /\ run.n >= 1 /\ run.day = LocalDate(now) /\ AllIdle)
        => get_today_kicks = run.base + run.n

C1_Witness ==
    /\ run.valid /\ run.n >= 2 /\ run.day = LocalDate(now) /\ AllIdle
    /\ get_today_kicks = run.base + run.n

\* C2: once every action has completed, the count stored for each date equals
\* the number of kick_events rows whose local date is that date.
C2_CountEqualsEvents ==
    AllIdle => \A d \in StoredDates : CountOn(d) = EventsOn(d)

\* C3: when reset_today() completes on local day D, get_today_kicks() returns 0
\* and no kick_events row has local date D.
C3_ResetClearsToday ==
    [][\A s \in sessions : ResetCommit(s) =>
          /\ CountOn(LocalDate(now))' = 0
          /\ EventsOn(LocalDate(now))' = 0]_vars

\* C4: when the ADD KICK actions of several sessions on one local day have
\* all completed, the count has grown by their number and as many rows exist.
C4_NoLostIncrement ==
    (run.valid /\ run.n >= 2 /\ run.day = LocalDate(now) /\ AllIdle)
        => /\ get_today_kicks = run.base + run.n
           /\ Len(kick_events) = run.rows + run.n

\* A step that raises the count stored for some date.
CountGrows ==
    \E k \in DOMAIN kicks' : kicks'[k] > (IF k \in DOMAIN kicks THEN kicks[k] ELSE 0)

\* C5: every commit that raises a date's count also adds the event row, and
\* every commit that adds an event row also raises a count.
C5_RecordAllOrNothing ==
    [][CountGrows <=> Len(kick_events') > Len(kick_events)]_vars

\* C6: whenever a session starts an ADD KICK or a Reset Today, the stored
\* last_login_date is the current local date.
C6_GatedPerDay ==
    [][\A s \in sessions : (KickRead(s) \/ ResetBegin(s)) =>
          get_last_login_date = IsoDate(LocalDate(now))]_vars

\* C7: confirming an input that differs from PIN_CODE clears the input and
\* changes nothing else: the session stays at the keypad, not logged in, and
\* the three tables are unchanged, however many attempts came before.
C7_WrongPinOnlyClears ==
    [][\A s \in sessions : (PinConfirm(s) /\ pin_input[s] # PIN_CODE) =>
          /\ pin_input'[s] = <<>>
          /\ logged_in' = logged_in /\ ~logged_in'[s]
          /\ db' = db
          /\ AtPin(s)'
          /\ [pin_input EXCEPT ![s] = <<>>] = pin_input']_vars

C7_Witness ==
    \E s \in sessions : wrong[s] = MaxWrong /\ AtPin(s) /\ pin_input[s] = <<>>

\* C8: the step that starts the notification completes the ADD KICK at once,
\* with the tables as the action wrote them, and nothing a notification thread
\* does afterwards (return, raise, time out, hang) touches a table or a session.
C8_NotifyIndependent ==
    [][/\ \A s \in sessions : (pc[s] = "notify" /\ pc'[s] # "notify") =>
             (pc'[s] = "idle" /\ db' = db)
       /\ (tasks' < tasks) => (db' = db /\ sess' = sess)]_vars

C8_Witness ==
    \E s \in sessions : pc[s] = "idle" /\ tasks > 0 /\ get_today_kicks >= 1
                          /\ Len(kick_events) >= 1


\* The stored rows of a local date, their instants, and the entries the
\* interval series holds for the date.
RowsOn(d) == {i \in 1..Len(kick_events) : EventDate(kick_events[i]) = d}
InstantsOn(d) == {ParseIso(kick_events[i]) : i \in RowsOn(d)}
MinOf(S) == CHOOSE x \in S : \A y \in S : x <= y
EntriesFor(d) == {j \in DOMAIN page.interval_df : page.interval_df[j].date = d}

\* C9: the interval series has exactly one entry for each local date inside
\* [today - lookback, today] that has at least 2 events, its value being
\* (latest - earliest) / (n - 1) in hours, and no entry for any other date.
C9_IntervalSeries ==
    page.at = "shown" =>
        \A d \in 0..(page.today + 1) :
            IF page.today - page.days <= d /\ d <= page.today
               /\ Cardinality(RowsOn(d)) >= 2
            THEN /\ Cardinality(EntriesFor(d)) = 1
                 /\ \A j \in EntriesFor(d) :
                        LET avg == page.interval_df[j].avg_interval
                            n   == Cardinality(RowsOn(d))
                        IN  /\ avg[2] > 0
                            /\ avg[1] * (n - 1) * HoursPerTick[2] =
                               (MaxOf(InstantsOn(d)) - MinOf(InstantsOn(d)))
                                   * HoursPerTick[1] * avg[2]
            ELSE EntriesFor(d) = {}

C9_Witness ==
    /\ page.at = "shown"
    /\ page.days = 10
    /\ Len(page.interval_df) = 1
    /\ page.interval_df[1].date = page.today - page.days
    /\ page.interval_df[1].avg_interval[1] > 0
    /\ \E d \in 0..page.today : d < page.today - page.days /\ RowsOn(d) # {}
    /\ C9_IntervalSeries

IsSorted(seq) == \A i \in 1..(Len(seq) - 1) : seq[i] <= seq[i + 1]

\* C10: the events the Analytics page loads, and the rows of its table of
\* today's events, are all the stored rows in non-decreasing timestamp order.
C10_ListedInOrder ==
    LET df == LoadEvents(kick_events)
    IN  /\ Len(df) = Len(kick_events)
        /\ IsSorted(df)
        /\ IsSorted(TodayDf(df, LocalDate(now)))
====
